---- MODULE Spec2Model ----
(***************************************************************************)
(* Model of src/src/image.rs: the Image<T> pixel buffer (cols, rows,       *)
(* depth, color_type, data) with its constructor Image::new and the three  *)
(* accessors get_pixel_data, get_pixel_mono and set_pixel_data.            *)
(*                                                                         *)
(* T is instantiated with u8 (samples are numbers 0..255).  A Rust panic   *)
(* (index out of range, or an arithmetic overflow when the build checks    *)
(* overflow) is the outcome "Panic"; it ends the run.                      *)
(***************************************************************************)
EXTENDS Integers, Sequences, FiniteSets, TLC

\* ---- bounds of the model ------------------------------------------------
MaxCols == 2
MaxRows == 3
MaxVal == 1
MaxWrites == 1

\* ---- u32 arithmetic (cols, rows, col, row and the index are u32) ---------
\* Numbers are split in 16-bit halves so that the wrapped result and the
\* overflow flag of a 32-bit operation are computed without leaving the
\* range of TLC's integers.
Half == 2^16

Hi(x) == x \div Half

Lo(x) == x % Half

\* a * b on u32: v is the wrapped result, o tells whether it overflowed
MulU32(a, b) ==
    LET low == Lo(a) * Lo(b)
        mid == Hi(a) * Lo(b) + Lo(a) * Hi(b) + Hi(low)
    IN  [v |-> (mid % Half) * Half + Lo(low),
         o |-> (Hi(a) * Hi(b) > 0) \/ (mid >= Half)]

\* a + b on u32
AddU32(a, b) ==
    LET low == Lo(a) + Lo(b)
        high == Hi(a) + Hi(b) + Hi(low)
    IN  [v |-> (high % Half) * Half + Lo(low),
         o |-> high >= Half]

\* ---- the data model ------------------------------------------------------
ColorType == {"Mono", "RGB", "RGBA"}

\* depth set by Image::new for each color type
ChannelDepth(ct) ==
    CASE ct = "Mono" -> 1
      [] ct = "RGB"  -> 3
      [] ct = "RGBA" -> 4

\* vec![T::from(0 as u8); n]
Zeros(n) == [i \in 1..n |-> 0]

VARIABLES
    cols,             \* Image.cols
    rows,             \* Image.rows
    depth,            \* Image.depth
    color_type,       \* Image.color_type
    data,             \* Image.data, data[i + 1] is the element at offset i
    overflow_checks,  \* the build checks arithmetic overflow (debug profile)
    panicked,         \* a call has panicked: the run is over
    op,               \* the last call: "new", "get_pixel_data", ...
    arg_col,          \* its col argument
    arg_row,          \* its row argument
    arg_val,          \* its val argument (set_pixel_data)
    ret,              \* its result
    old_data,         \* data when the last call started
    writes            \* number of set_pixel_data calls so far

vars == <<cols, rows, depth, color_type, data, overflow_checks, panicked,
          op, arg_col, arg_row, arg_val, ret, old_data, writes>>

image == <<cols, rows, depth, color_type>>

\* results of a call
Ok(vec, mono) == [kind |-> "Ok", vec |-> vec, mono |-> mono]

OutOfBounds == [kind |-> "OutOfBounds", vec |-> <<>>, mono |-> 0]

WrongColorType == [kind |-> "WrongColorType", vec |-> <<>>, mono |-> 0]

Panic == [kind |-> "Panic", vec |-> <<>>, mono |-> 0]

\* ---- Image::new ----------------------------------------------------------
\* The length expression of the vec! macro: cols * rows for Mono,
\* cols * rows * 3 for RGB, cols * rows * 4 for RGBA, computed on u32.
new_len(c, r, ct) ==
    LET cr == MulU32(c, r)
        full == MulU32(cr.v, ChannelDepth(ct))
    IN  IF ct = "Mono" THEN cr ELSE [v |-> full.v, o |-> cr.o \/ full.o]

\* new with the length of a Mono image whatever the color type
new_mono_len(c, r, ct, checks) ==
    LET len == MulU32(c, r)
    IN  IF len.o /\ checks
        THEN [built |-> FALSE, depth |-> ChannelDepth(ct), data |-> <<>>]
        ELSE [built |-> TRUE, depth |-> ChannelDepth(ct), data |-> Zeros(len.v)]

\* The image Image::new(c, r, ct) builds; built is FALSE when it panicked.
new(c, r, ct, checks) ==
    LET len == new_len(c, r, ct)
    IN  IF len.o /\ checks
        THEN [built |-> FALSE, depth |-> ChannelDepth(ct), data |-> <<>>]
        ELSE [built |-> TRUE, depth |-> ChannelDepth(ct), data |-> Zeros(len.v)]

\* ---- the accessors -------------------------------------------------------
\* the bounds test off by one: (col <= self.cols) && (row <= self.rows)
in_bounds_inclusive(col, row) == (col <= cols) /\ (row <= rows)

\* (col < self.cols) && (row < self.rows)
in_bounds(col, row) == (col < cols) /\ (row < rows)

\* col * self.cols + row
flat_index(col, row) ==
    LET m == MulU32(col, cols)
        s == AddU32(m.v, row)
    IN  [v |-> s.v, o |-> m.o \/ s.o]

\* self.depth as u32 * (col * self.cols + row)
idx_bot(col, row) ==
    LET f == flat_index(col, row)
        p == MulU32(depth, f.v)
    IN  [v |-> p.v, o |-> f.o \/ p.o]

get_pixel_data(col, row) ==
    IF in_bounds(col, row)
    THEN LET bot == idx_bot(col, row)
             idx_top == bot.v + depth
         IN  IF bot.o /\ overflow_checks THEN Panic
             ELSE IF idx_top > Len(data) THEN Panic
             ELSE Ok(SubSeq(data, bot.v + 1, idx_top), 0)
    ELSE OutOfBounds

\* get_pixel_mono testing the bounds before the color type
get_pixel_mono_bounds_first(col, row) ==
    IF in_bounds(col, row)
    THEN IF color_type # "Mono" THEN WrongColorType
         ELSE LET idx == flat_index(col, row)
              IN  IF idx.o /\ overflow_checks THEN Panic
                  ELSE IF idx.v >= Len(data) THEN Panic
                  ELSE Ok(<<>>, data[idx.v + 1])
    ELSE OutOfBounds

\* get_pixel_mono indexing data[row * cols + col]
get_pixel_mono_row_major(col, row) ==
    IF color_type # "Mono" THEN WrongColorType
    ELSE IF in_bounds(col, row)
    THEN LET m == MulU32(row, cols)
             s == AddU32(m.v, col)
         IN  IF (m.o \/ s.o) /\ overflow_checks THEN Panic
             ELSE IF s.v >= Len(data) THEN Panic
             ELSE Ok(<<>>, data[s.v + 1])
    ELSE OutOfBounds

get_pixel_mono(col, row) ==
    IF color_type # "Mono" THEN WrongColorType
    ELSE IF in_bounds(col, row)
    THEN LET idx == flat_index(col, row)
         IN  IF idx.o /\ overflow_checks THEN Panic
             ELSE IF idx.v >= Len(data) THEN Panic
             ELSE Ok(<<>>, data[idx.v + 1])
    ELSE OutOfBounds

\* for i in 0..depth { self.data[i + idx_bot] = val[i]; }
\* from iteration i on, with d the data so far
RECURSIVE set_loop(_, _, _, _)
set_loop(d, bot, val, i) ==
    IF i >= depth THEN [data |-> d, panicked |-> FALSE]
    ELSE IF i >= Len(val) \/ i + bot >= Len(d) THEN [data |-> d, panicked |-> TRUE]
    ELSE set_loop([d EXCEPT ![i + bot + 1] = val[i + 1]], bot, val, i + 1)

\* set_pixel_data pushing the values at the end of data
set_pixel_data_push(col, row, val) ==
    IF in_bounds(col, row)
    THEN [ret |-> Ok(<<>>, 0), data |-> data \o SubSeq(val, 1, depth)]
    ELSE [ret |-> OutOfBounds, data |-> data]

\* the result and the data set_pixel_data leaves
set_pixel_data(col, row, val) ==
    IF in_bounds(col, row)
    THEN LET bot == idx_bot(col, row)
             w == set_loop(data, bot.v, val, 0)
         IN  IF bot.o /\ overflow_checks THEN [ret |-> Panic, data |-> data]
             ELSE IF w.panicked THEN [ret |-> Panic, data |-> w.data]
             ELSE [ret |-> Ok(<<>>, 0), data |-> w.data]
    ELSE [ret |-> OutOfBounds, data |-> data]

\* ---- inputs --------------------------------------------------------------
\* coordinates: every in-bounds one and one past the end in each direction
Cols == 0..MaxCols

Rows == 0..MaxRows

\* pixel values: b, b+1, ... for each channel, of length depth or depth + 1
PixelVals(d) ==
    {[i \in 1..n |-> (b + i - 1) % 256] : b \in 1..MaxVal, n \in {d, d + 1}}

\* ---- the state machine ---------------------------------------------------
\* the state after Image::new(c, r, ct)
Constructed(c, r, ct) ==
    /\ overflow_checks \in BOOLEAN
    /\ LET img == new(c, r, ct, overflow_checks)
       IN  /\ cols = c
           /\ rows = r
           /\ color_type = ct
           /\ depth = img.depth
           /\ data = img.data
           /\ old_data = <<>>
           /\ panicked = ~img.built
           /\ ret = IF img.built THEN Ok(<<>>, 0) ELSE Panic
    /\ op = "new"
    /\ arg_col = 0
    /\ arg_row = 0
    /\ arg_val = <<>>
    /\ writes = 0

\* images of ordinary sizes, zero included
Init ==
    \E c \in 0..MaxCols, r \in 0..MaxRows, ct \in ColorType : Constructed(c, r, ct)

\* the same, and the smallest square image whose length does not fit in u32
InitAnySize ==
    \/ Init
    \/ \E ct \in ColorType : Constructed(Half, Half, ct)

GetPixelData ==
    /\ ~panicked
    /\ \E col \in Cols, row \in Rows :
        /\ op' = "get_pixel_data"
        /\ arg_col' = col
        /\ arg_row' = row
        /\ arg_val' = <<>>
        /\ ret' = get_pixel_data(col, row)
        /\ panicked' = (get_pixel_data(col, row).kind = "Panic")
    /\ old_data' = data
    /\ UNCHANGED <<cols, rows, depth, color_type, data, overflow_checks, writes>>

GetPixelMono ==
    /\ ~panicked
    /\ \E col \in Cols, row \in Rows :
        /\ op' = "get_pixel_mono"
        /\ arg_col' = col
        /\ arg_row' = row
        /\ arg_val' = <<>>
        /\ ret' = get_pixel_mono(col, row)
        /\ panicked' = (get_pixel_mono(col, row).kind = "Panic")
    /\ old_data' = data
    /\ UNCHANGED <<cols, rows, depth, color_type, data, overflow_checks, writes>>

SetPixelData ==
    /\ ~panicked
    /\ writes < MaxWrites
    /\ \E col \in Cols, row \in Rows, val \in PixelVals(depth) :
        /\ op' = "set_pixel_data"
        /\ arg_col' = col
        /\ arg_row' = row
        /\ arg_val' = val
        /\ ret' = set_pixel_data(col, row, val).ret
        /\ data' = set_pixel_data(col, row, val).data
        /\ panicked' = (set_pixel_data(col, row, val).ret.kind = "Panic")
    /\ old_data' = data
    /\ writes' = writes + 1
    /\ UNCHANGED <<cols, rows, depth, color_type, overflow_checks>>

Next == GetPixelData \/ GetPixelMono \/ SetPixelData

Spec == Init /\ [][Next]_vars

SpecAnySize == InitAnySize /\ [][Next]_vars

\* ---- vocabulary of the properties ----------------------------------------
\* Image::new returned an image (it did not panic)
Built == ~(op = "new" /\ panicked)

\* the last call was an accessor call with (col, row) inside the image
CallInBounds == (arg_col < cols) /\ (arg_row < rows)

\* Len(data) = cols * rows * depth over the integers, stated with divisions
\* so that no product leaves the range of TLC's integers
LenIsProduct ==
    IF cols = 0 \/ rows = 0 THEN Len(data) = 0
    ELSE /\ Len(data) % cols = 0
         /\ (Len(data) \div cols) % rows = 0
         /\ (Len(data) \div cols) \div rows = depth

\* the 32-bit computation of the length in Image::new did not overflow
LenFitsU32 == ~new_len(cols, rows, color_type).o

AllZero(seq) == \A i \in 1..Len(seq) : seq[i] = 0

\* ---- C1 ------------------------------------------------------------------
\* C1: round trip: set_pixel(col, row, v) on an in-bounds (col, row) with v of
\* length channel_depth succeeds, and a following get_pixel(col, row)
\* succeeds and returns exactly v.
C1_RoundTrip ==
    (op = "set_pixel_data" /\ CallInBounds /\ Len(arg_val) = depth)
        => /\ ret.kind = "Ok"
           /\ get_pixel_data(arg_col, arg_row) = Ok(arg_val, 0)

\* ---- C2 ------------------------------------------------------------------
CallOutOfBounds ==
    /\ op \in {"get_pixel_data", "get_pixel_mono", "set_pixel_data"}
    /\ (arg_col >= cols \/ arg_row >= rows)

\* C2 as stated: out of bounds, every accessor fails with OutOfBounds on a
\* buffer of any layout, and the data is left unchanged.
C2_AllFailOutOfBounds ==
    CallOutOfBounds => (ret = OutOfBounds /\ data = old_data)

\* C2 amended: out of bounds, get_pixel and set_pixel fail with OutOfBounds
\* on every layout, get_pixel_mono fails with OutOfBounds on a Mono buffer and
\* with WrongColorType on an RGB or RGBA buffer; the failing call leaves every
\* sample unchanged.
C2_OutOfBoundsFails ==
    CallOutOfBounds =>
        /\ ret = IF op = "get_pixel_mono" /\ color_type # "Mono"
                 THEN WrongColorType ELSE OutOfBounds
        /\ data = old_data

\* a set_pixel one column past the end, failing, on a buffer that has pixels
C2_Witness ==
    /\ op = "set_pixel_data"
    /\ arg_col = cols /\ arg_row < rows /\ cols > 0
    /\ ret = OutOfBounds
    /\ data = old_data

\* ---- C3 ------------------------------------------------------------------
\* C3: a successful set_pixel(col, row, v) changes no other in-bounds pixel:
\* get_pixel(col', row') returns the same after the write as before it.
C3_OtherPixelsKept ==
    [][(op' = "set_pixel_data" /\ ret'.kind = "Ok") =>
          \A c \in Cols, r \in Rows :
              (in_bounds(c, r) /\ <<c, r>> # <<arg_col', arg_row'>>)
                  => get_pixel_data(c, r)' = get_pixel_data(c, r)]_vars

\* ---- C4 ------------------------------------------------------------------
\* C4: get_pixel on an in-bounds (col, row) succeeds and returns exactly
\* channel_depth values (1, 3, 4 for Mono, RGB, RGBA), all zero on a fresh
\* buffer.
C4_GetPixelInBounds ==
    (op = "get_pixel_data" /\ CallInBounds)
        => /\ ret.kind = "Ok"
           /\ Len(ret.vec) = ChannelDepth(color_type)
           /\ (writes = 0 => AllZero(ret.vec))

FreshBufferOk ==
    /\ ret.kind = "Ok"
    /\ depth = ChannelDepth(color_type)
    /\ LenIsProduct
    /\ AllZero(data)
    /\ (cols = 0 \/ rows = 0) =>
          /\ data = <<>>
          /\ \A c \in Cols, r \in Rows :
                /\ get_pixel_data(c, r) = OutOfBounds
                /\ \A val \in PixelVals(depth) :
                      set_pixel_data(c, r, val).ret = OutOfBounds

\* C6 as stated: construction succeeds for all columns, rows and layout, with
\* depth 1/3/4, cols * rows * depth samples all zero, and an empty buffer
\* whose every access fails with OutOfBounds when cols or rows is zero.
C6_ConstructionAlwaysSucceeds == (op = "new") => FreshBufferOk

\* C6 amended: the same for all columns, rows and layout whose length
\* columns * rows * channel_depth, computed in 32 bits, does not overflow.
C6_ConstructionSucceeds == (op = "new" /\ LenFitsU32) => FreshBufferOk

\* a fresh 2x3 RGBA buffer of 24 zero samples
C6_Witness ==
    /\ op = "new"
    /\ cols = 2 /\ rows = 3 /\ color_type = "RGBA"
    /\ Len(data) = 24
    /\ AllZero(data)

\* ---- C7 ------------------------------------------------------------------
\* C7: channel c of the in-bounds pixel (x, y) = (col, row) is the element at
\* offset depth * (y * cols + x) + c: set_pixel writes it there and
\* get_pixel reads it from there.
C7_StorageLayout ==
    (CallInBounds /\ ret.kind = "Ok") =>
        \A c \in 0..(depth - 1) :
            LET offset == depth * (arg_row * cols + arg_col) + c
            IN  /\ op = "set_pixel_data" => data[offset + 1] = arg_val[c + 1]
                /\ op = "get_pixel_data" => ret.vec[c + 1] = data[offset + 1]

\* ---- C8 ------------------------------------------------------------------
\* C8 as stated: in every state of a built buffer the number of samples is
\* cols * rows * depth and depth is the one the layout determines.
C8_LengthInvariant ==
    Built => (LenIsProduct /\ depth = ChannelDepth(color_type))

\* C8 amended: when the 32-bit computation of the length at construction did
\* not overflow, the number of samples is cols * rows * depth in every
\* state; in every case depth is the one the layout determines, and no call
\* changes cols, rows, depth, color_type or the number of samples.
C8_LengthKept ==
    /\ [](Built => /\ depth = ChannelDepth(color_type)
                   /\ (LenFitsU32 => LenIsProduct))
    /\ [][image' = image /\ Len(data') = Len(data)]_vars

\* a successful write that changed the data of a 2x3 RGB buffer
C8_Witness ==
    /\ op = "set_pixel_data"
    /\ ret.kind = "Ok"
    /\ data # old_data
    /\ cols = 2 /\ rows = 3 /\ color_type = "RGB"
    /\ Len(data) = 18

\* ---- C9 ------------------------------------------------------------------
\* C9: every call of get_pixel, get_pixel_mono and set_pixel (with at least
\* channel_depth values) returns a success or a typed error; none aborts.
C9_NoFatalPath ==
    (op \in {"get_pixel_data", "get_pixel_mono", "set_pixel_data"}
        /\ Len(arg_val) >= (IF op = "set_pixel_data" THEN depth ELSE 0))
        => ret.kind \in {"Ok", "OutOfBounds", "WrongColorType"}

\* ---- C10 -----------------------------------------------------------------
\* C10: on a Mono buffer, for every (col, row), get_pixel_mono succeeds
\* exactly when get_pixel succeeds, and then returns the single element of
\* get_pixel's result.
C10_MonoAgrees ==
    (Built /\ color_type = "Mono") =>
        \A c \in Cols, r \in Rows :
            LET m == get_pixel_mono(c, r)
                g == get_pixel_data(c, r)
            IN  /\ (m.kind = "Ok") <=> (g.kind = "Ok")
                /\ (m.kind = "Ok") => (g.vec = <<m.mono>>)

\* get_pixel_mono returned a sample that a set_pixel had written
C10_Witness ==
    /\ color_type = "Mono"
    /\ op = "get_pixel_mono"
    /\ ret.kind = "Ok"
    /\ ret.mono # 0
    /\ get_pixel_data(arg_col, arg_row) = Ok(<<ret.mono>>, 0)

====
